---- MODULE Spec2Model ----
(***************************************************************************)
(* A model of notionapi's CachingClient (caching_client.go): the per-page  *)
(* request cache on disk, the intercepted POST path, DownloadPage and its  *)
(* deferred flush, the recursive crawl, and the version queries.           *)
(***************************************************************************)
EXTENDS Integers, Sequences, FiniteSets, TLC

(***************************************************************************)
(* Bounds of the model.                                                    *)
(***************************************************************************)
\* requests one page download issues at most
MaxReqs == 2
\* top-level calls made in one behaviour, over all CachingClient instances
MaxOps == 2
\* highest version the server reaches for a page
MaxVer == 2
\* longest id list handed to the version queries
MaxIds == 2

recCacheName == "noahttpcache"

(***************************************************************************)
(* Identities.  "a1" and "b1" are no-dash ids, "a-1" and "b-1" their       *)
(* dashed forms, "zz" is a string that is no identity.  NoID is the empty  *)
(* string ToNoDashID gives for it, and stands for the nil *NotionID.       *)
(***************************************************************************)
NoDashIDs == {"a1", "b1"}
DashIDs == {"a-1", "b-1"}
ValidIDs == NoDashIDs \cup DashIDs
NoID == ""
IDStrings == ValidIDs \cup {"zz"}

ToNoDashID(id) ==
    CASE id \in {"a1", "a-1"} -> "a1"
      [] id \in {"b1", "b-1"} -> "b1"
      [] OTHER -> NoID

ToDashID(id) ==
    CASE id \in {"a1", "a-1"} -> "a-1"
      [] id \in {"b1", "b-1"} -> "b-1"
      [] OTHER -> id

\* the NoDashID of the *NotionID, NoID for nil
NewNotionID(id) == ToNoDashID(id)

isIDEqual(id1, id2) == ToNoDashID(id1) = ToNoDashID(id2)

\* Go compares strings bytewise: '-' sorts before digits, digits before letters
StrRank(s) ==
    CASE s = "" -> 0
      [] s = "a-1" -> 1
      [] s = "a1" -> 2
      [] s = "b-1" -> 3
      [] s = "b1" -> 4
      [] OTHER -> 5

RECURSIVE InsertSorted(_, _)
InsertSorted(x, s) ==
    IF s = <<>> THEN <<x>>
    ELSE IF StrRank(x) <= StrRank(Head(s)) THEN <<x>> \o s
    ELSE <<Head(s)>> \o InsertSorted(x, Tail(s))

RECURSIVE SortStrings(_)
SortStrings(s) ==
    IF s = <<>> THEN <<>> ELSE InsertSorted(Head(s), SortStrings(Tail(s)))

SeqMap(Op(_), s) == [i \in 1..Len(s) |-> Op(s[i])]

normalizeIDS(ids) == SeqMap(ToDashID, ids)

Range(s) == {s[i] : i \in 1..Len(s)}

\* sequences over S of length lo..hi
SeqsOf(S, lo, hi) == UNION {[1..n -> S] : n \in lo..hi}

(***************************************************************************)
(* Requests, responses and cache records.  A response is a byte string     *)
(* that is not JSON ("raw"), compact JSON or indented JSON; it carries the *)
(* version of the page it describes.                                       *)
(***************************************************************************)
Requests ==
    { [URL |-> "u1", Body |-> "x"],
      [URL |-> "u1", Body |-> "y"],
      [URL |-> "u2", Body |-> "x"] }

Fmts == {"raw", "compact", "pretty"}

\* the requests the download of each page issues, in order: the download of
\* "a1" repeats a url with another body, the download of "b1" repeats a request
R1 == [URL |-> "u1", Body |-> "x"]
R2 == [URL |-> "u1", Body |-> "y"]
R3 == [URL |-> "u2", Body |-> "x"]

Pattern(nid) == IF nid = "a1" THEN <<R1, R2, R3, R1>> ELSE <<R1, R1, R3, R2>>

pageReqs(nid) == [i \in 1..MaxReqs |-> Pattern(nid)[((i - 1) % 4) + 1]]

PrettyPrintJS(resp) ==
    IF resp.fmt = "compact" THEN [resp EXCEPT !.fmt = "pretty"] ELSE resp

RequestCacheEntry(method, uri, body, response) ==
    [Method |-> method, URL |-> uri, Body |-> body, Response |-> response]

(***************************************************************************)
(* The siser framing: a file is a sequence of records, each a name and an  *)
(* ordered list of key/value pairs.                                        *)
(***************************************************************************)
\* the url and the body are written under each other's key
serializeCacheEntrySwapped(rr) ==
    << [ Name |-> recCacheName,
         Entries |-> << <<"Method", rr.Method>>,
                        <<"URL", rr.Body>>,
                        <<"Body", rr.URL>>,
                        <<"Response", PrettyPrintJS(rr.Response)>> >> ] >>

serializeCacheEntry(rr) ==
    << [ Name |-> recCacheName,
         Entries |-> << <<"Method", rr.Method>>,
                        <<"URL", rr.URL>>,
                        <<"Body", rr.Body>>,
                        <<"Response", PrettyPrintJS(rr.Response)>> >> ] >>

RecHas(r, key) == \E i \in 1..Len(r.Entries) : r.Entries[i][1] = key

recGetKey(r, key) ==
    LET i == CHOOSE j \in 1..Len(r.Entries) :
                 /\ r.Entries[j][1] = key
                 /\ \A k \in 1..(j - 1) : r.Entries[k][1] # key
    IN  r.Entries[i][2]

RecordKeys == <<"Method", "URL", "Body", "Response">>

\* the body is read from the URL field
deserializeCacheEntryBodyFromURL(d) ==
    IF \E i \in 1..Len(d) :
           \/ d[i].Name # recCacheName
           \/ \E k \in 1..Len(RecordKeys) : ~RecHas(d[i], RecordKeys[k])
    THEN [err |-> TRUE, res |-> <<>>]
    ELSE [err |-> FALSE,
          res |-> [i \in 1..Len(d) |->
                     RequestCacheEntry(recGetKey(d[i], "Method"),
                                       recGetKey(d[i], "URL"),
                                       recGetKey(d[i], "URL"),
                                       recGetKey(d[i], "Response"))]]

\* [err, res]: err when a record has another name or lacks a key
deserializeCacheEntry(d) ==
    IF \E i \in 1..Len(d) :
           \/ d[i].Name # recCacheName
           \/ \E k \in 1..Len(RecordKeys) : ~RecHas(d[i], RecordKeys[k])
    THEN [err |-> TRUE, res |-> <<>>]
    ELSE [err |-> FALSE,
          res |-> [i \in 1..Len(d) |->
                     RequestCacheEntry(recGetKey(d[i], "Method"),
                                       recGetKey(d[i], "URL"),
                                       recGetKey(d[i], "Body"),
                                       recGetKey(d[i], "Response"))]]

\* the buffer is overwritten by each record instead of extended
serializeAllLastOnly(rrs) ==
    IF rrs = <<>> THEN <<>> ELSE serializeCacheEntry(rrs[Len(rrs)])

\* lines 258-264: the records of the pending list, concatenated
RECURSIVE serializeAll(_)
serializeAll(rrs) ==
    IF rrs = <<>> THEN <<>>
    ELSE serializeCacheEntry(Head(rrs)) \o serializeAll(Tail(rrs))

(***************************************************************************)
(* The cache directory.  A file name "<stem>.txt" is modelled by its stem; *)
(* disk[stem] is <<>> when the file does not exist and <<contents>> when   *)
(* it does.                                                                *)
(***************************************************************************)
FileStems == NoDashIDs \cup {"a-1", "zz"}

NoFile == <<>>

\* what disk holds for an entry "<stem>.txt" that is a directory
Directory == << [Name |-> "directory", Entries |-> <<>>] >>

\* the elements of a set in some order (the order of a Go map iteration)
RECURSIVE SetToSeq(_)
SetToSeq(S) ==
    IF S = {} THEN <<>>
    ELSE LET x == CHOOSE y \in S : TRUE IN <<x>> \o SetToSeq(S \ {x})

\* ioutil.ReadDir returns the entries sorted by name
ReadDir(d) == SortStrings(SetToSeq({f \in FileStems : d[f] # NoFile}))


MapGet(m, k) == IF k \in DOMAIN m THEN m[k] ELSE <<>>

MapPut(m, k, v) == [x \in (DOMAIN m) \cup {k} |-> IF x = k THEN v ELSE m[x]]

EmptyMap == <<>>

(***************************************************************************)
(* State.                                                                  *)
(***************************************************************************)
VARIABLES
    \* the environment: cache directory, server, pages
    disk,           \* [FileStems -> NoFile or <<file contents>>]
    serverVer,      \* [NoDashIDs -> 1..MaxVer], the server's version of each page
    subPages,       \* [NoDashIDs -> the child identities the page lists]
    offline,        \* the live transport fails on every call
    \* the process
    pc,             \* "none", "new", "idle", "download", "crawl", "crawlAfter", "panicked"
    run,            \* CachingClient instances built so far
    ops,            \* top-level calls made so far
    \* Client
    httpPostOverride,
    \* CachingClient
    RedownloadNewerVersions,
    NoReadCache,
    pageIDToEntries,
    currPageID,
    currPageRequests,
    IdToPageLatestVersion,          \* <<>> for the nil map, <<m>> for a map m
    didCheckVersionsOfCachedPages,
    RequestsFromCache,
    RequestsNotFromCache,
    RequestsWrittenToCache,
    events,         \* what emitEvent was called with
    \* call frames
    dl,             \* the DownloadPage call in progress, or the last one
    crawl,          \* the DownloadPagesRecursively call in progress, or the last one
    ret,            \* what the last top-level call returned
    \* history
    liveCalls,      \* calls of doPostInternal made by the current instance
    written,        \* [NoDashIDs -> the exchanges of the download that wrote the page's file]
    loaded,         \* written, as it was when the current instance was built
    prevCrawl,      \* the crawl of the previous instance
    queries,        \* the id lists the current instance sent to the version oracle
    lastResp        \* what the oracle answered to the last version query

envVars == <<serverVer, subPages>>
flagVars == <<RedownloadNewerVersions, NoReadCache>>
counterVars == <<RequestsFromCache, RequestsNotFromCache, RequestsWrittenToCache>>
verVars == <<IdToPageLatestVersion, didCheckVersionsOfCachedPages>>
cacheVars == <<pageIDToEntries, currPageID, currPageRequests>>
histVars == <<written, loaded, prevCrawl, queries, lastResp>>

vars == <<disk, serverVer, subPages, offline, pc, run, ops,
          httpPostOverride, RedownloadNewerVersions, NoReadCache,
          pageIDToEntries, currPageID, currPageRequests, IdToPageLatestVersion,
          didCheckVersionsOfCachedPages, RequestsFromCache, RequestsNotFromCache,
          RequestsWrittenToCache, events, dl, crawl, ret, liveCalls, written,
          loaded, prevCrawl, queries, lastResp>>

NoResp == [ver |-> 0, fmt |-> "nil"]
NoPage == [ID |-> NoID, Version |-> 0]

NoDl == [active |-> FALSE, pageID |-> NoID, nid |-> NoID, prevOverride |-> "nil", n |-> 0,
         err |-> "", trace |-> <<>>, flushed |-> <<>>, flushErr |-> ""]

\* active, start, toVisit, downloaded, cb and pageID are the call's parameters
\* and locals; the other fields record what the call did
NoCrawl == [active |-> FALSE, start |-> NoID, toVisit |-> <<>>,
            downloaded |-> EmptyMap, cb |-> FALSE, pageID |-> NoID,
            calls |-> <<>>, files |-> EmptyMap, flushFailed |-> FALSE,
            cbFailed |-> FALSE, first |-> FALSE, emptyDir |-> FALSE,
            done |-> FALSE, err |-> "", pages |-> <<>>]

Ret(op, err, page, pages) ==
    [op |-> op, err |-> err, page |-> page, pages |-> pages, ok |-> FALSE,
     versions |-> <<>>]

NoRet == Ret("", "", NoPage, <<>>)


(***************************************************************************)
(* readRequestsCacheFile and NewCachingClient.                             *)
(***************************************************************************)
\* the loop over the directory entries, in ReadDir's order
RECURSIVE loadEntries(_, _, _)
loadEntries(names, d, index) ==
    IF names = <<>> THEN [err |-> FALSE, index |-> index]
    ELSE LET name == Head(names)
             nid == NewNotionID(name)
         IN  IF d[name][1] = Directory THEN loadEntries(Tail(names), d, index)
             ELSE IF nid = NoID THEN loadEntries(Tail(names), d, index)
             ELSE LET des == deserializeCacheEntry(d[name][1])
                  IN  IF des.err THEN [err |-> TRUE, index |-> index]
                      ELSE loadEntries(Tail(names), d, MapPut(index, nid, des.res))

\* ioErr: MkdirAll, ReadDir or ReadFile fails
readRequestsCacheFile(d, ioErr) ==
    IF ioErr THEN [err |-> TRUE, index |-> EmptyMap]
    ELSE loadEntries(ReadDir(d), d, EmptyMap)

\* args: "ok", "noDir" (cacheDir is empty) or "noClient" (client is nil)
NewCachingClient(args, ioErr, off) ==
    /\ \/ pc = "none"
       \/ pc \in {"idle", "panicked"} /\ ret.op # "NewCachingClient"
    /\ ops < MaxOps
    /\ LET res == readRequestsCacheFile(disk, ioErr)
       IN  IF args # "ok" \/ res.err
           THEN /\ pc' = "none"
                /\ run' = run
                /\ pageIDToEntries' = EmptyMap
                /\ ret' = Ret("NewCachingClient", "error", NoPage, <<>>)
           ELSE /\ pc' = "new"
                /\ run' = run + 1
                /\ pageIDToEntries' = res.index
                /\ ret' = Ret("NewCachingClient", "", NoPage, <<>>)
    /\ offline' = off
    /\ RedownloadNewerVersions' = FALSE
    /\ NoReadCache' = FALSE
    /\ currPageID' = NoID
    /\ currPageRequests' = <<>>
    /\ IdToPageLatestVersion' = <<>>
    /\ didCheckVersionsOfCachedPages' = FALSE
    /\ RequestsFromCache' = 0
    /\ RequestsNotFromCache' = 0
    /\ RequestsWrittenToCache' = 0
    /\ events' = <<>>
    /\ liveCalls' = 0
    /\ dl' = NoDl
    /\ crawl' = NoCrawl
    /\ loaded' = written
    /\ prevCrawl' = IF ret.op = "DownloadPagesRecursively" THEN crawl ELSE NoCrawl
    /\ queries' = <<>>
    /\ lastResp' = [err |-> TRUE, results |-> <<>>]
    /\ UNCHANGED <<disk, envVars, ops, httpPostOverride, written>>

\* the caller assigns the exported fields of the new instance
Configure(nrc, rnv, mkMap) ==
    /\ pc = "new"
    /\ pc' = "idle"
    /\ NoReadCache' = nrc
    /\ RedownloadNewerVersions' = rnv
    /\ IdToPageLatestVersion' = IF mkMap THEN <<EmptyMap>> ELSE <<>>
    /\ UNCHANGED <<disk, envVars, offline, run, ops, httpPostOverride, cacheVars,
                   didCheckVersionsOfCachedPages, counterVars, events, dl, crawl,
                   ret, liveCalls, histVars>>

(***************************************************************************)
(* The intercepted POST: tryReadFromCache, cacheRequest, doPostMaybeCached. *)
(***************************************************************************)
Min(S) == CHOOSE x \in S : \A y \in S : x <= y

\* the body is not compared
tryReadFromCacheAnyBody(method, uri, body) ==
    IF NoReadCache THEN [ok |-> FALSE, d |-> NoResp]
    ELSE LET pageRequests == MapGet(pageIDToEntries, currPageID)
             hits == {i \in 1..Len(pageRequests) :
                        /\ pageRequests[i].Method = method
                        /\ pageRequests[i].URL = uri}
         IN  IF hits = {} THEN [ok |-> FALSE, d |-> NoResp]
             ELSE [ok |-> TRUE, d |-> pageRequests[Min(hits)].Response]

\* the records are looked up in the page's file, not in the index
tryReadFromCacheFromDisk(method, uri, body) ==
    IF NoReadCache THEN [ok |-> FALSE, d |-> NoResp]
    ELSE LET pageRequests == IF disk[currPageID] = NoFile THEN <<>>
                             ELSE deserializeCacheEntry(disk[currPageID][1]).res
             hits == {i \in 1..Len(pageRequests) :
                        /\ pageRequests[i].Method = method
                        /\ pageRequests[i].URL = uri
                        /\ pageRequests[i].Body = body}
         IN  IF hits = {} THEN [ok |-> FALSE, d |-> NoResp]
             ELSE [ok |-> TRUE, d |-> pageRequests[Min(hits)].Response]

\* the pending records of the download are looked up as well
tryReadFromCacheSeesPending(method, uri, body) ==
    IF NoReadCache THEN [ok |-> FALSE, d |-> NoResp]
    ELSE LET pageRequests == MapGet(pageIDToEntries, currPageID) \o currPageRequests
             hits == {i \in 1..Len(pageRequests) :
                        /\ pageRequests[i].Method = method
                        /\ pageRequests[i].URL = uri
                        /\ pageRequests[i].Body = body}
         IN  IF hits = {} THEN [ok |-> FALSE, d |-> NoResp]
             ELSE [ok |-> TRUE, d |-> pageRequests[Min(hits)].Response]

\* [ok, d]
tryReadFromCache(method, uri, body) ==
    IF NoReadCache THEN [ok |-> FALSE, d |-> NoResp]
    ELSE LET pageRequests == MapGet(pageIDToEntries, currPageID)
             hits == {i \in 1..Len(pageRequests) :
                        /\ pageRequests[i].Method = method
                        /\ pageRequests[i].URL = uri
                        /\ pageRequests[i].Body = body}
         IN  IF hits = {} THEN [ok |-> FALSE, d |-> NoResp]
             ELSE [ok |-> TRUE, d |-> pageRequests[Min(hits)].Response]

\* the new value of currPageRequests
cacheRequest(method, uri, body, response) ==
    IF currPageID = NoID THEN currPageRequests
    ELSE Append(currPageRequests, RequestCacheEntry(method, uri, body, response))

\* what doPostInternal can answer: an error, or the page's bytes in some format
LiveOutcomes == IF offline THEN {"error"} ELSE {"error"} \cup Fmts

Exchange(req, resp, src) == [req |-> req, resp |-> resp, src |-> src]

\* one request of the page download in progress, through httpPostOverride
doPostMaybeCached(uri, body, live) ==
    /\ pc = "download"
    /\ httpPostOverride = "doPostMaybeCached"
    /\ dl.err = ""
    /\ dl.n < Len(pageReqs(dl.nid))
    /\ pageReqs(dl.nid)[dl.n + 1] = [URL |-> uri, Body |-> body]
    /\ LET c == tryReadFromCache("POST", uri, body)
           req == [URL |-> uri, Body |-> body]
       IN  IF c.ok
           THEN /\ RequestsFromCache' = RequestsFromCache + 1
                /\ dl' = [dl EXCEPT !.n = @ + 1,
                                    !.trace = Append(@, Exchange(req, c.d, "cache"))]
                /\ UNCHANGED <<RequestsNotFromCache, currPageRequests, liveCalls>>
           ELSE /\ live \in LiveOutcomes
                /\ liveCalls' = liveCalls + 1
                /\ IF live = "error"
                   THEN /\ dl' = [dl EXCEPT !.n = @ + 1, !.err = "live error",
                                            !.trace = Append(@, Exchange(req, NoResp, "error"))]
                        /\ UNCHANGED <<RequestsNotFromCache, currPageRequests>>
                   ELSE LET d == [ver |-> serverVer[dl.nid], fmt |-> live]
                        IN  /\ RequestsNotFromCache' = RequestsNotFromCache + 1
                            /\ currPageRequests' = cacheRequest("POST", uri, body, d)
                            /\ dl' = [dl EXCEPT !.n = @ + 1,
                                                !.trace = Append(@, Exchange(req, d, "live"))]
                /\ UNCHANGED RequestsFromCache
    /\ UNCHANGED <<disk, envVars, offline, pc, run, ops, httpPostOverride, flagVars,
                   pageIDToEntries, currPageID, verVars, RequestsWrittenToCache,
                   events, crawl, ret, histVars>>


(***************************************************************************)
(* writeCacheForCurrPage and DownloadPage.                                 *)
(***************************************************************************)
\* the flush returns before it writes
writeCacheForCurrPageNoWrite(writeOK) ==
    [disk |-> disk, n |-> RequestsWrittenToCache, pending |-> currPageRequests,
     err |-> ""]

\* the counter grows by one for a flush, not by the number of its records
writeCacheForCurrPageCountsOne(writeOK) ==
    IF Len(currPageRequests) = 0
    THEN [disk |-> disk, n |-> RequestsWrittenToCache,
          pending |-> currPageRequests, err |-> ""]
    ELSE IF writeOK
    THEN [disk |-> [disk EXCEPT ![currPageID] = <<serializeAll(currPageRequests)>>],
          n |-> RequestsWrittenToCache + 1,
          pending |-> <<>>, err |-> ""]
    ELSE [disk |-> [disk EXCEPT ![currPageID] = NoFile],
          n |-> RequestsWrittenToCache,
          pending |-> currPageRequests, err |-> "write error"]

\* an empty pending list is written like any other
writeCacheForCurrPageAlways(writeOK) ==
    IF writeOK
    THEN [disk |-> [disk EXCEPT ![currPageID] = <<serializeAll(currPageRequests)>>],
          n |-> RequestsWrittenToCache + Len(currPageRequests),
          pending |-> <<>>, err |-> ""]
    ELSE [disk |-> [disk EXCEPT ![currPageID] = NoFile],
          n |-> RequestsWrittenToCache,
          pending |-> currPageRequests, err |-> "write error"]

\* [disk, n, pending, err]: the flush of the pending list; writeOK is whether
\* ioutil.WriteFile succeeds
writeCacheForCurrPage(writeOK) ==
    IF Len(currPageRequests) = 0
    THEN [disk |-> disk, n |-> RequestsWrittenToCache,
          pending |-> currPageRequests, err |-> ""]
    ELSE IF writeOK
    THEN [disk |-> [disk EXCEPT ![currPageID] = <<serializeAll(currPageRequests)>>],
          n |-> RequestsWrittenToCache + Len(currPageRequests),
          pending |-> <<>>, err |-> ""]
    ELSE [disk |-> [disk EXCEPT ![currPageID] = NoFile],
          n |-> RequestsWrittenToCache,
          pending |-> currPageRequests, err |-> "write error"]

\* lines 464-468, 472 and 480: up to the call of client.DownloadPage
DownloadPageEnter(pageID) ==
    /\ currPageRequests' = <<>>
    /\ currPageID' = NewNotionID(pageID)
    /\ IF NewNotionID(pageID) = NoID
       THEN /\ dl' = [NoDl EXCEPT !.pageID = pageID, !.prevOverride = httpPostOverride,
                                  !.err = "not a valid notion id"]
            /\ UNCHANGED httpPostOverride
       ELSE /\ dl' = [NoDl EXCEPT !.active = TRUE, !.pageID = pageID,
                                  !.nid = NewNotionID(pageID),
                                  !.prevOverride = httpPostOverride]
            /\ httpPostOverride' = "doPostMaybeCached"

DownloadPage(pageID) ==
    /\ pc = "idle"
    /\ ops < MaxOps
    /\ ops' = ops + 1
    /\ DownloadPageEnter(pageID)
    /\ IF NewNotionID(pageID) = NoID
       THEN /\ pc' = "idle"
            /\ ret' = Ret("DownloadPage", "not a valid notion id", NoPage, <<>>)
       ELSE /\ pc' = "download"
            /\ UNCHANGED ret
    /\ UNCHANGED <<disk, envVars, offline, run, flagVars, pageIDToEntries, verVars,
                   counterVars, events, crawl, liveCalls, histVars>>

\* the page client.DownloadPage parses from the responses it got
PageOf(nid, trace) == [ID |-> nid, Version |-> trace[1].resp.ver]

\* client.DownloadPage returns and the deferred function of DownloadPage runs
DownloadPageReturn(writeOK) ==
    /\ pc = "download"
    /\ dl.err # "" \/ dl.n = Len(pageReqs(dl.nid))
    /\ LET w == writeCacheForCurrPage(writeOK)
           page == IF dl.err = "" THEN PageOf(dl.nid, dl.trace) ELSE NoPage
       IN  /\ disk' = w.disk
           /\ RequestsWrittenToCache' = w.n
           /\ currPageRequests' = w.pending
           /\ dl' = [dl EXCEPT !.active = FALSE, !.flushed = currPageRequests,
                               !.flushErr = w.err]
           /\ written' = IF Len(currPageRequests) = 0 THEN written
                         ELSE [written EXCEPT ![dl.nid] =
                                  IF w.err = "" THEN dl.trace ELSE <<>>]
           /\ ret' = Ret("DownloadPage", dl.err, page, <<>>)
           /\ crawl' = IF ~crawl.active \/ currPageRequests = <<>> THEN crawl
                       ELSE IF w.err # "" THEN [crawl EXCEPT !.flushFailed = TRUE]
                       ELSE [crawl EXCEPT !.files = MapPut(@, dl.nid, w.disk[dl.nid])]
    /\ httpPostOverride' = dl.prevOverride
    /\ currPageID' = NoID
    /\ pc' = IF crawl.active THEN "crawlAfter" ELSE "idle"
    /\ UNCHANGED <<envVars, offline, run, ops, flagVars, pageIDToEntries, verVars,
                   RequestsFromCache, RequestsNotFromCache, events, liveCalls,
                   loaded, prevCrawl, queries, lastResp>>


(***************************************************************************)
(* DownloadPagesRecursively.                                               *)
(***************************************************************************)
DownloadPagesRecursively(startPageID, cb) ==
    /\ pc = "idle"
    /\ ops < MaxOps
    /\ ops' = ops + 1
    /\ pc' = "crawl"
    /\ crawl' = [NoCrawl EXCEPT !.active = TRUE, !.start = startPageID,
                                !.toVisit = <<startPageID>>, !.cb = cb,
                                !.first = (ret.op = "NewCachingClient"),
                                !.emptyDir = (\A f \in FileStems : disk[f] = NoFile)]
    /\ UNCHANGED <<disk, envVars, offline, run, httpPostOverride, flagVars, cacheVars,
                   verVars, counterVars, events, dl, ret, liveCalls, histVars>>

\* lines 509-522: the ids of the pages returned, sorted
CrawlResult(downloaded) == SortStrings(SetToSeq(DOMAIN downloaded))

\* the queue head is compared with the visited set as it is
NextPageIDRaw(toVisit) == Head(toVisit)

\* line 488: the queue head in no-dash form
NextPageID(toVisit) == ToNoDashID(Head(toVisit))

\* the call returns (pages, err)
CrawlReturns(frame, err, pages) ==
    /\ pc' = "idle"
    /\ crawl' = [frame EXCEPT !.active = FALSE, !.done = TRUE, !.err = err,
                              !.pages = pages]
    /\ ret' = Ret("DownloadPagesRecursively", err, NoPage, pages)

\* lines 487-494 and 509-522: the head of one loop iteration, up to the call of
\* DownloadPage, or the return of the result when the queue is empty
CrawlLoop ==
    /\ pc = "crawl"
    /\ IF crawl.toVisit = <<>>
       THEN /\ CrawlReturns(crawl, "", CrawlResult(crawl.downloaded))
            /\ UNCHANGED <<httpPostOverride, cacheVars, dl>>
       ELSE LET pageID == NextPageID(crawl.toVisit)
                popped == [crawl EXCEPT !.toVisit = Tail(@)]
                called == [popped EXCEPT !.pageID = pageID,
                                         !.calls = Append(@, pageID)]
            IN  IF pageID \in DOMAIN crawl.downloaded
                THEN /\ crawl' = popped
                     /\ UNCHANGED <<pc, ret, httpPostOverride, cacheVars, dl>>
                ELSE /\ DownloadPageEnter(pageID)
                     /\ UNCHANGED pageIDToEntries
                     /\ IF NewNotionID(pageID) = NoID
                        THEN CrawlReturns(called, "not a valid notion id", <<>>)
                        ELSE /\ pc' = "download"
                             /\ crawl' = called
                             /\ UNCHANGED ret
    /\ UNCHANGED <<disk, envVars, offline, run, ops, flagVars, verVars, counterVars,
                   events, liveCalls, histVars>>

\* a failure of DownloadPage does not end the crawl
CrawlAfterDownloadIgnoreErr(cbOK) ==
    /\ pc = "crawlAfter"
    /\ pc' = "crawl"
    /\ crawl' = [crawl EXCEPT !.downloaded = MapPut(@, crawl.pageID, ret.page),
                              !.toVisit = @ \o subPages[dl.nid]]
    /\ UNCHANGED <<disk, envVars, offline, run, ops, httpPostOverride, flagVars,
                   cacheVars, verVars, counterVars, events, dl, ret, liveCalls,
                   histVars>>

\* lines 495-507: DownloadPage has returned; cbOK is whether afterDownload succeeds
CrawlAfterDownload(cbOK) ==
    /\ pc = "crawlAfter"
    /\ LET stored == [crawl EXCEPT !.downloaded = MapPut(@, crawl.pageID, ret.page)]
       IN  IF ret.err # ""
           THEN CrawlReturns(crawl, ret.err, <<>>)
           ELSE IF crawl.cb /\ ~cbOK
           THEN CrawlReturns([stored EXCEPT !.cbFailed = TRUE],
                             "afterDownload error", <<>>)
           ELSE /\ pc' = "crawl"
                /\ crawl' = [stored EXCEPT !.toVisit = @ \o subPages[ret.page.ID]]
                /\ UNCHANGED ret
    /\ UNCHANGED <<disk, envVars, offline, run, ops, httpPostOverride, flagVars,
                   cacheVars, verVars, counterVars, events, dl, liveCalls, histVars>>

(***************************************************************************)
(* The version oracle (GetBlockRecords through a copy of the client) and   *)
(* the version bookkeeping.                                                *)
(***************************************************************************)
NilBlock == [nil |-> TRUE, ID |-> NoID, Version |-> 0]

\* the block the server holds for a page, under its dashed id
BlockOf(nid) == [nil |-> FALSE, ID |-> ToDashID(nid), Version |-> serverVer[nid]]

Blocks == {NilBlock} \cup {BlockOf(nid) : nid \in NoDashIDs}

OracleError == [err |-> TRUE, results |-> <<>>]

OtherPage(nid) == IF nid = "a1" THEN "b1" ELSE "a1"

\* what GetBlockRecords(ids) can answer: an error; the block of every id, in
\* the order of the ids; that answer one result short; that answer with no
\* block at the first position (a page that is not visible); or at every
\* position the block of another page
OracleResponses(ids) ==
    LET n == Len(ids)
        inOrder == [i \in 1..n |-> BlockOf(ToNoDashID(ids[i]))]
        short == SubSeq(inOrder, 1, n - 1)
        hidden == [i \in 1..n |-> IF i = 1 THEN NilBlock ELSE inOrder[i]]
        misplaced == [i \in 1..n |-> BlockOf(OtherPage(ToNoDashID(ids[i])))]
    IN  {OracleError} \cup
        {[err |-> FALSE, results |-> r] :
            r \in {inOrder} \cup (IF n = 0 THEN {} ELSE {short, hidden, misplaced})}

\* the answer that is aligned with the ids as queried
Aligned(ids, resp) ==
    /\ ~resp.err
    /\ Len(resp.results) = Len(ids)
    /\ \A i \in 1..Len(ids) :
          ToNoDashID(ids[i]) \in NoDashIDs
              => resp.results[i] = BlockOf(ToNoDashID(ids[i]))

\* a missing block is given the version of a page that exists
getVersionsForPagesNilIsOne(ids, resp) ==
    LET nids == normalizeIDS(ids)
        results == resp.results
    IN  IF resp.err THEN [kind |-> "error", versions |-> <<>>]
        ELSE IF Len(results) # Len(nids) THEN [kind |-> "error", versions |-> <<>>]
        ELSE IF \E i \in 1..Len(results) :
                   /\ ~results[i].nil
                   /\ ~isIDEqual(nids[i], results[i].ID)
        THEN [kind |-> "panic", versions |-> <<>>]
        ELSE [kind |-> "ok",
              versions |-> [i \in 1..Len(results) |->
                              IF results[i].nil THEN 1 ELSE results[i].Version]]

\* [kind, versions]: kind is "ok", "error" or "panic"
getVersionsForPages(ids, resp) ==
    LET nids == normalizeIDS(ids)
        results == resp.results
    IN  IF resp.err THEN [kind |-> "error", versions |-> <<>>]
        ELSE IF Len(results) # Len(nids) THEN [kind |-> "error", versions |-> <<>>]
        ELSE IF \E i \in 1..Len(results) :
                   /\ ~results[i].nil
                   /\ ~isIDEqual(nids[i], results[i].ID)
        THEN [kind |-> "panic", versions |-> <<>>]
        ELSE [kind |-> "ok",
              versions |-> [i \in 1..Len(results) |->
                              IF results[i].nil THEN 0 ELSE results[i].Version]]

\* the versions are stored in a new map
StoreVersionsInNewMap(m, ids, versions) ==
    [nid \in {ToNoDashID(ids[i]) : i \in 1..Len(ids)} |->
        versions[CHOOSE i \in 1..Len(ids) :
                    /\ ToNoDashID(ids[i]) = nid
                    /\ \A j \in (i + 1)..Len(ids) : ToNoDashID(ids[j]) # nid]]

RECURSIVE StoreVersions(_, _, _)
StoreVersions(m, ids, versions) ==
    IF ids = <<>> THEN m
    ELSE StoreVersions(MapPut(m, ToNoDashID(Head(ids)), Head(versions)),
                       Tail(ids), Tail(versions))

GotVersions(n) == [type |-> "GotVersions", Count |-> n]

\* [kind, map, events, queries]: kind is "ok", "error" or "panic"
updateVersionsForPages(ids, resp) ==
    LET sorted == SortStrings(ids)
        g == getVersionsForPages(sorted, resp)
        same == [kind |-> "ok", map |-> IdToPageLatestVersion, events |-> events,
                 queries |-> queries]
        asked == Append(queries, normalizeIDS(sorted))
    IN  IF Len(ids) = 0 THEN same
        ELSE IF g.kind # "ok" THEN [same EXCEPT !.kind = g.kind, !.queries = asked]
        ELSE IF Len(sorted) # Len(g.versions)
        THEN [same EXCEPT !.kind = "error", !.queries = asked]
        ELSE IF IdToPageLatestVersion = <<>>
        THEN [same EXCEPT !.kind = "panic", !.queries = asked,
                          !.events = Append(events, GotVersions(Len(ids)))]
        ELSE [kind |-> "ok",
              map |-> <<StoreVersions(IdToPageLatestVersion[1],
                                      normalizeIDS(sorted), g.versions)>>,
              events |-> Append(events, GotVersions(Len(ids))),
              queries |-> asked]

GetPageIDs == SetToSeq(DOMAIN pageIDToEntries)

VersionOpFrame ==
    /\ pc = "idle"
    /\ ops < MaxOps
    /\ ops' = ops + 1
    /\ UNCHANGED <<disk, envVars, offline, run, httpPostOverride, flagVars, cacheVars,
                   counterVars, dl, crawl, liveCalls, written, loaded, prevCrawl>>

\* the oracle's answer is kept only when the oracle was asked
Asked(resp, before) == lastResp' = IF queries' = before THEN lastResp ELSE resp

GetVersionsForPages(ids, resp) ==
    /\ VersionOpFrame
    /\ resp \in OracleResponses(ids)
    /\ LET g == getVersionsForPages(ids, resp)
       IN  /\ pc' = IF g.kind = "panic" THEN "panicked" ELSE "idle"
           /\ ret' = [Ret("getVersionsForPages",
                          IF g.kind = "ok" THEN "" ELSE g.kind, NoPage, ids)
                        EXCEPT !.versions = g.versions]
    /\ queries' = Append(queries, normalizeIDS(ids))
    /\ lastResp' = resp
    /\ UNCHANGED <<verVars, events>>

UpdateVersionsForPages(ids, resp) ==
    /\ VersionOpFrame
    /\ resp \in OracleResponses(SortStrings(ids))
    /\ LET u == updateVersionsForPages(ids, resp)
       IN  /\ pc' = IF u.kind = "panic" THEN "panicked" ELSE "idle"
           /\ IdToPageLatestVersion' = u.map
           /\ events' = u.events
           /\ queries' = u.queries
           /\ ret' = Ret("updateVersionsForPages",
                         IF u.kind = "ok" THEN "" ELSE u.kind, NoPage, ids)
    /\ Asked(resp, queries)
    /\ UNCHANGED didCheckVersionsOfCachedPages

CheckVersionsOfCachedPages(resp) ==
    /\ VersionOpFrame
    /\ IF ~RedownloadNewerVersions \/ didCheckVersionsOfCachedPages
       THEN /\ resp = OracleError
            /\ pc' = "idle"
            /\ ret' = Ret("checkVersionsOfCachedPages", "", NoPage, <<>>)
            /\ UNCHANGED <<verVars, events, queries, lastResp>>
       ELSE LET ids == GetPageIDs
                u == updateVersionsForPages(ids, resp)
            IN  /\ resp \in OracleResponses(SortStrings(ids))
                /\ pc' = IF u.kind = "panic" THEN "panicked" ELSE "idle"
                /\ IdToPageLatestVersion' = u.map
                /\ events' = u.events
                /\ queries' = u.queries
                /\ didCheckVersionsOfCachedPages' = (u.kind = "ok")
                /\ Asked(resp, queries)
                /\ ret' = Ret("checkVersionsOfCachedPages",
                              IF u.kind = "ok" THEN "" ELSE u.kind, NoPage, ids)

\* the cached pages a caller can hand to canReturnCachedPage; NoPage is nil
CachedPages == {NoPage} \cup [ID : ValidIDs, Version : 1..MaxVer]

CanReturnCachedPage(p, resp) ==
    /\ VersionOpFrame
    /\ p \in CachedPages
    /\ UNCHANGED didCheckVersionsOfCachedPages
    /\ IF p = NoPage \/ ~RedownloadNewerVersions
       THEN /\ resp = OracleError
            /\ pc' = "idle"
            /\ ret' = [Ret("canReturnCachedPage", "", p, <<>>) EXCEPT !.ok = (p # NoPage)]
            /\ UNCHANGED <<IdToPageLatestVersion, events, queries, lastResp>>
       ELSE LET pageID == ToNoDashID(p.ID)
                known == /\ IdToPageLatestVersion # <<>>
                         /\ pageID \in DOMAIN IdToPageLatestVersion[1]
                u == IF known
                     THEN [kind |-> "ok", map |-> IdToPageLatestVersion,
                           events |-> events, queries |-> queries]
                     ELSE updateVersionsForPages(<<pageID>>, resp)
                newestVer == IF u.map # <<>> /\ pageID \in DOMAIN u.map[1]
                             THEN u.map[1][pageID] ELSE 0
            IN  /\ IF known THEN resp = OracleError
                   ELSE resp \in OracleResponses(<<pageID>>)
                /\ pc' = IF u.kind = "panic" THEN "panicked" ELSE "idle"
                /\ IdToPageLatestVersion' = u.map
                /\ events' = u.events
                /\ queries' = u.queries
                /\ Asked(resp, queries)
                /\ ret' = [Ret("canReturnCachedPage", "", p, <<>>)
                             EXCEPT !.ok = (u.kind = "ok" /\ p.Version >= newestVer)]

\* somebody edits the page on the server
ServerEdit(nid) ==
    /\ pc = "idle"
    /\ serverVer[nid] < MaxVer
    /\ serverVer' = [serverVer EXCEPT ![nid] = @ + 1]
    /\ UNCHANGED <<disk, subPages, offline, pc, run, ops, httpPostOverride,
                   flagVars, cacheVars, verVars, counterVars, events, dl, crawl, ret,
                   liveCalls, histVars>>


(***************************************************************************)
(* Specifications.                                                         *)
(***************************************************************************)
\* a cache directory that does not exist yet, and no CachingClient
InitCommon ==
    /\ disk = [f \in FileStems |-> NoFile]
    /\ serverVer = [nid \in NoDashIDs |-> 1]
    /\ offline = FALSE
    /\ pc = "none"
    /\ run = 0
    /\ ops = 0
    /\ RedownloadNewerVersions = FALSE
    /\ NoReadCache = FALSE
    /\ pageIDToEntries = EmptyMap
    /\ currPageID = NoID
    /\ currPageRequests = <<>>
    /\ IdToPageLatestVersion = <<>>
    /\ didCheckVersionsOfCachedPages = FALSE
    /\ RequestsFromCache = 0
    /\ RequestsNotFromCache = 0
    /\ RequestsWrittenToCache = 0
    /\ events = <<>>
    /\ dl = NoDl
    /\ crawl = NoCrawl
    /\ ret = NoRet
    /\ liveCalls = 0
    /\ written = [nid \in NoDashIDs |-> <<>>]
    /\ loaded = [nid \in NoDashIDs |-> <<>>]
    /\ prevCrawl = NoCrawl
    /\ queries = <<>>
    /\ lastResp = OracleError

\* single page downloads: no child pages
Init ==
    /\ InitCommon
    /\ httpPostOverride \in {"nil", "user"}
    /\ subPages = [nid \in NoDashIDs |-> <<>>]

Build ==
    \E args \in {"ok", "noDir", "noClient"}, ioErr \in BOOLEAN :
        NewCachingClient(args, ioErr, FALSE)

Intercept ==
    \E req \in Requests, live \in {"error", "raw", "compact"} :
        doPostMaybeCached(req.URL, req.Body, live)

Next ==
    \/ Build
    \/ \E nrc \in BOOLEAN, rnv \in BOOLEAN : Configure(nrc, rnv, FALSE)
    \/ \E pageID \in {"a1", "b-1", "zz"} : DownloadPage(pageID)
    \/ Intercept
    \/ \E writeOK \in BOOLEAN : DownloadPageReturn(writeOK)

Spec == Init /\ [][Next]_vars

\* what a page can list as its children: nothing, both pages in dashed and
\* no-dash form with a repetition, or a string that is no identity
ChildLists == {<<>>, <<"a-1", "b1", "b-1">>, <<"zz">>}

\* the page graphs: the crawls start at a1, so that the children of b1 matter
\* only when a1 lists b1
PageGraphs ==
    {g \in [NoDashIDs -> ChildLists] :
        g["a1"] # <<"a-1", "b1", "b-1">> => g["b1"] = <<>>}

InitCrawl ==
    /\ InitCommon
    /\ httpPostOverride = "nil"
    /\ subPages \in PageGraphs

BuildCrawl ==
    \E off \in BOOLEAN : NewCachingClient("ok", FALSE, off)

InterceptCrawl ==
    \E req \in Requests, live \in {"error", "compact"} :
        doPostMaybeCached(req.URL, req.Body, live)

\* the steps the crawl takes by itself once it is called
CrawlStep ==
    \/ CrawlLoop
    \/ \E cbOK \in BOOLEAN : CrawlAfterDownload(cbOK)
    \/ InterceptCrawl
    \/ \E writeOK \in BOOLEAN : DownloadPageReturn(writeOK)

NextCrawl ==
    \/ BuildCrawl
    \/ Configure(FALSE, FALSE, FALSE)
    \/ \E start \in {"a-1", "zz"}, cb \in BOOLEAN :
          DownloadPagesRecursively(start, cb)
    \/ CrawlStep

\* the code is synchronous: a crawl that was called keeps running
SpecCrawl == InitCrawl /\ [][NextCrawl]_vars /\ WF_vars(CrawlStep)

\* lists of distinct identities, dashed or not, in any order
IdLists ==
    {ids \in SeqsOf({"a-1", "a1", "b1"}, 0, MaxIds) :
        \A i, j \in 1..Len(ids) : i # j => ToNoDashID(ids[i]) # ToNoDashID(ids[j])}

AllOracleResponses == UNION {OracleResponses(ids) : ids \in IdLists}

\* single page downloads and version queries, while the pages are edited
InitVersions ==
    /\ InitCommon
    /\ httpPostOverride = "nil"
    /\ subPages = [nid \in NoDashIDs |-> <<>>]

BuildVersions == NewCachingClient("ok", FALSE, FALSE)

ConfigureVersions ==
    \E rnv \in BOOLEAN, mkMap \in BOOLEAN : Configure(FALSE, rnv, mkMap)

InterceptVersions ==
    \E req \in Requests, live \in {"error", "compact"} :
        doPostMaybeCached(req.URL, req.Body, live)

NextVersions ==
    \/ BuildVersions
    \/ ConfigureVersions
    \/ \E nid \in NoDashIDs : ServerEdit(nid)
    \/ DownloadPage("a1")
    \/ InterceptVersions
    \/ DownloadPageReturn(TRUE)
    \/ \E ids \in IdLists, resp \in AllOracleResponses : GetVersionsForPages(ids, resp)
    \/ \E ids \in IdLists, resp \in AllOracleResponses : UpdateVersionsForPages(ids, resp)
    \/ \E resp \in AllOracleResponses : CheckVersionsOfCachedPages(resp)
    \/ \E p \in {q \in CachedPages : q = NoPage \/ q.ID \in {"a-1", "b1"}},
          resp \in AllOracleResponses : CanReturnCachedPage(p, resp)

SpecVersions == InitVersions /\ [][NextVersions]_vars

\* the version calls of a client on pages nobody edits: the id lists and the
\* cached pages the caller hands in
KnowledgeIdLists == {<<"a1">>, <<"b1", "a-1">>}

KnowledgePages == {NoPage} \cup [ID : {"a-1", "b1"}, Version : 1..MaxVer]

InterceptKnowledge ==
    \E req \in Requests : doPostMaybeCached(req.URL, req.Body, "compact")

NextKnowledge ==
    \/ BuildVersions
    \/ ConfigureVersions
    \/ DownloadPage("a1")
    \/ InterceptKnowledge
    \/ DownloadPageReturn(TRUE)
    \/ \E ids \in KnowledgeIdLists : \E resp \in OracleResponses(ids) :
          GetVersionsForPages(ids, resp)
    \/ \E ids \in KnowledgeIdLists : \E resp \in OracleResponses(SortStrings(ids)) :
          UpdateVersionsForPages(ids, resp)
    \/ \E resp \in AllOracleResponses : CheckVersionsOfCachedPages(resp)
    \/ \E p \in KnowledgePages, resp \in AllOracleResponses :
          CanReturnCachedPage(p, resp)

SpecKnowledge == InitVersions /\ [][NextKnowledge]_vars

\* the records handed to serializeCacheEntry: bodies of one line and of two,
\* responses that are not JSON, compact JSON and indented JSON
AnyRecords ==
    [Method : {"POST"}, URL : {"u1", "u2"}, Body : {"x", "l1\nl2"},
     Response : [ver : {1}, fmt : Fmts]]

\* a list of records is pending for page a1, nothing is on disk
InitRoundTrip ==
    /\ disk = [f \in FileStems |-> NoFile]
    /\ serverVer = [nid \in NoDashIDs |-> 1]
    /\ subPages = [nid \in NoDashIDs |-> <<>>]
    /\ offline = FALSE
    /\ pc = "pending"
    /\ run = 0
    /\ ops = 0
    /\ httpPostOverride = "nil"
    /\ RedownloadNewerVersions = FALSE
    /\ NoReadCache = FALSE
    /\ pageIDToEntries = EmptyMap
    /\ currPageID = "a1"
    /\ currPageRequests \in SeqsOf(AnyRecords, 0, MaxReqs)
    /\ IdToPageLatestVersion = <<>>
    /\ didCheckVersionsOfCachedPages = FALSE
    /\ RequestsFromCache = 0
    /\ RequestsNotFromCache = 0
    /\ RequestsWrittenToCache = 0
    /\ events = <<>>
    /\ dl = NoDl
    /\ crawl = NoCrawl
    /\ ret = NoRet
    /\ liveCalls = 0
    /\ written = [nid \in NoDashIDs |-> <<>>]
    /\ loaded = [nid \in NoDashIDs |-> <<>>]
    /\ prevCrawl = NoCrawl
    /\ queries = <<>>
    /\ lastResp = OracleError

\* lines 258-264: the serialized records, concatenated into one buffer
SerializeRecords ==
    /\ pc = "pending"
    /\ pc' = "serialized"
    /\ disk' = [disk EXCEPT ![currPageID] = <<serializeAll(currPageRequests)>>]
    /\ UNCHANGED <<envVars, offline, run, ops, httpPostOverride, flagVars, cacheVars,
                   verVars, counterVars, events, dl, crawl, ret, liveCalls, histVars>>

\* line 202: the buffer handed to deserializeCacheEntry
DeserializeRecords ==
    /\ pc = "serialized"
    /\ pc' = "deserialized"
    /\ LET r == deserializeCacheEntry(disk[currPageID][1])
       IN  /\ pageIDToEntries' = [x \in {currPageID} |-> r.res]
           /\ ret' = Ret("deserializeCacheEntry", IF r.err THEN "error" ELSE "",
                         NoPage, <<>>)
    /\ UNCHANGED <<disk, envVars, offline, run, ops, httpPostOverride, flagVars,
                   currPageID, currPageRequests, verVars, counterVars, events, dl,
                   crawl, liveCalls, histVars>>

NextRoundTrip == SerializeRecords \/ DeserializeRecords

SpecRoundTrip == InitRoundTrip /\ [][NextRoundTrip]_vars

\* what a cache directory somebody else has written to can hold under a name:
\* a file of one record or of two, a file whose second record has another
\* type, a file whose record has no Response, or a directory
GoodRecord == serializeCacheEntry(RequestCacheEntry("POST", "u1", "x", [ver |-> 1, fmt |-> "pretty"]))

OtherTypeRecord == << [Name |-> "other", Entries |-> GoodRecord[1].Entries] >>

NoResponseRecord ==
    << [Name |-> recCacheName, Entries |-> SubSeq(GoodRecord[1].Entries, 1, 3)] >>

FileContents ==
    {GoodRecord, GoodRecord \o GoodRecord, GoodRecord \o OtherTypeRecord,
     NoResponseRecord, Directory}

\* a directory that can be read, with any of these entries
InitLoad ==
    /\ disk \in [FileStems -> {NoFile} \cup {<<c>> : c \in FileContents}]
    /\ serverVer = [nid \in NoDashIDs |-> 1]
    /\ subPages = [nid \in NoDashIDs |-> <<>>]
    /\ offline = FALSE
    /\ pc = "none"
    /\ run = 0
    /\ ops = 0
    /\ httpPostOverride = "nil"
    /\ RedownloadNewerVersions = FALSE
    /\ NoReadCache = FALSE
    /\ pageIDToEntries = EmptyMap
    /\ currPageID = NoID
    /\ currPageRequests = <<>>
    /\ IdToPageLatestVersion = <<>>
    /\ didCheckVersionsOfCachedPages = FALSE
    /\ RequestsFromCache = 0
    /\ RequestsNotFromCache = 0
    /\ RequestsWrittenToCache = 0
    /\ events = <<>>
    /\ dl = NoDl
    /\ crawl = NoCrawl
    /\ ret = NoRet
    /\ liveCalls = 0
    /\ written = [nid \in NoDashIDs |-> <<>>]
    /\ loaded = [nid \in NoDashIDs |-> <<>>]
    /\ prevCrawl = NoCrawl
    /\ queries = <<>>
    /\ lastResp = OracleError

\* MkdirAll, ReadDir and ReadFile succeed
BuildLoad == NewCachingClient("ok", FALSE, FALSE)

NextLoad == BuildLoad \/ Configure(FALSE, FALSE, FALSE)

SpecLoad == InitLoad /\ [][NextLoad]_vars


(***************************************************************************)
(* Steps, as the claims name them.                                         *)
(***************************************************************************)
\* one intercepted request
IsIntercept == pc = "download" /\ pc' = "download" /\ dl'.n = dl.n + 1

\* client.DownloadPage returns and the deferred function runs
IsReturn == pc = "download" /\ pc' # "download"

\* a direct call of DownloadPage
IsDownloadPageCall ==
    /\ pc = "idle"
    /\ ops' = ops + 1
    /\ ~crawl'.active
    /\ pc' = "download" \/ (pc' = "idle" /\ ret'.op = "DownloadPage")

Last(s) == s[Len(s)]

AllSrc(trace, src) == \A i \in 1..Len(trace) : trace[i].src = src

\* the first exchange of a trace that has the request
FirstFor(trace, req) ==
    trace[Min({i \in 1..Len(trace) : trace[i].req = req})]

(***************************************************************************)
(* C1.  Idempotence of download.                                           *)
(***************************************************************************)
\* the current instance was loaded after a download of the page that went
\* live for every request, got a response for each and was flushed; it reads
\* the cache, and a download of that page is under way or over
SecondDownload ==
    /\ ~NoReadCache
    /\ ~RedownloadNewerVersions
    /\ dl.nid \in NoDashIDs
    /\ dl.trace # <<>>
    /\ Len(loaded[dl.nid]) = Len(pageReqs(dl.nid))
    /\ AllSrc(loaded[dl.nid], "live")

\* C1 as stated: the second download of a page issues no live call and every
\* request receives exactly the response bytes the first download received
\* for it.
C1_SecondDownloadByteIdentical ==
    SecondDownload =>
        \A i \in 1..Len(dl.trace) :
            /\ dl.trace[i].src = "cache"
            /\ dl.trace[i].resp = loaded[dl.nid][i].resp

\* C1 as amended: the second download of a page issues no live call and every
\* request receives the pretty-printed form of the response the first
\* download received for the first request equal to it.
C1_SecondDownloadFromCache ==
    SecondDownload =>
        \A i \in 1..Len(dl.trace) :
            /\ dl.trace[i].src = "cache"
            /\ dl.trace[i].resp =
                   PrettyPrintJS(FirstFor(loaded[dl.nid], dl.trace[i].req).resp)

\* a second download has answered all its requests, and the first download
\* had received compact JSON and something else
C1_Witness ==
    /\ SecondDownload
    /\ ~dl.active
    /\ Len(dl.trace) = Len(pageReqs(dl.nid))
    /\ liveCalls = 0
    /\ \E i, j \in 1..Len(loaded[dl.nid]) :
          /\ loaded[dl.nid][i].resp.fmt = "compact"
          /\ loaded[dl.nid][j].resp.fmt = "raw"

(***************************************************************************)
(* C5.  The cleanup of DownloadPage.                                       *)
(***************************************************************************)
\* what a flush of the pending list may leave on disk
FlushedOnReturn ==
    IF currPageRequests = <<>> THEN disk' = disk
    ELSE /\ \A f \in FileStems \ {currPageID} : disk'[f] = disk[f]
         /\ \/ disk'[currPageID] = <<serializeAll(currPageRequests)>>
            \/ disk'[currPageID] = NoFile /\ dl'.flushErr # ""

\* C5: when DownloadPage returns for a valid identity, whether the page
\* download succeeded or failed, the pending records have been flushed, the
\* scope is unbound and httpPostOverride is what it was before the call; for an
\* invalid identity DownloadPage fails without a request, a write or a change
\* of httpPostOverride.
C5_CleanupAlwaysRuns ==
    [][ /\ IsReturn =>
              /\ FlushedOnReturn
              /\ currPageID' = NoID
              /\ httpPostOverride' = dl.prevOverride
        /\ (IsDownloadPageCall /\ pc' = "download") =>
              /\ dl'.prevOverride = httpPostOverride
              /\ NewNotionID(dl'.pageID) # NoID
              /\ disk' = disk
        /\ (IsDownloadPageCall /\ pc' = "idle") =>
              /\ NewNotionID(dl'.pageID) = NoID
              /\ ret'.err # ""
              /\ ret'.page = NoPage
              /\ disk' = disk
              /\ liveCalls' = liveCalls
              /\ httpPostOverride' = httpPostOverride
      ]_vars

\* a page download has failed after a live exchange, its record is in the
\* page's file and the caller's override is back
C5_Witness ==
    /\ pc = "idle"
    /\ ret.op = "DownloadPage"
    /\ ret.err = "live error"
    /\ dl.flushed # <<>>
    /\ dl.flushErr = ""
    /\ disk[dl.nid] = <<serializeAll(dl.flushed)>>
    /\ httpPostOverride = "user"
    /\ currPageID = NoID

(***************************************************************************)
(* C7.  The intercept policy and its counters.                             *)
(***************************************************************************)
\* the positions of the scoped page's log that hold the request
Matches(req) ==
    LET log == MapGet(pageIDToEntries, currPageID)
    IN  {i \in 1..Len(log) :
            log[i].Method = "POST" /\ log[i].URL = req.URL /\ log[i].Body = req.Body}

\* C7: an intercepted request goes live when NoReadCache is set; otherwise the
\* first record of the scoped page's log with the same method, url and body
\* answers it and only RequestsFromCache grows; on a miss the live transport is
\* called, a success is appended to the pending list and only
\* RequestsNotFromCache grows, a failure is returned as it is and changes
\* neither the pending list nor a counter.
C7_InterceptPolicy ==
    [][ IsIntercept =>
          LET req == pageReqs(dl.nid)[dl.n + 1]
              x == Last(dl'.trace)
              log == MapGet(pageIDToEntries, currPageID)
          IN  /\ x.req = req
              /\ IF ~NoReadCache /\ Matches(req) # {}
                 THEN /\ x.src = "cache"
                      /\ x.resp = log[Min(Matches(req))].Response
                      /\ RequestsFromCache' = RequestsFromCache + 1
                      /\ RequestsNotFromCache' = RequestsNotFromCache
                      /\ currPageRequests' = currPageRequests
                      /\ liveCalls' = liveCalls
                      /\ dl'.err = ""
                 ELSE /\ liveCalls' = liveCalls + 1
                      /\ RequestsFromCache' = RequestsFromCache
                      /\ \/ /\ x.src = "live"
                            /\ dl'.err = ""
                            /\ currPageRequests' =
                                 Append(currPageRequests,
                                        RequestCacheEntry("POST", req.URL, req.Body, x.resp))
                            /\ RequestsNotFromCache' = RequestsNotFromCache + 1
                         \/ /\ x.src = "error"
                            /\ dl'.err = "live error"
                            /\ currPageRequests' = currPageRequests
                            /\ RequestsNotFromCache' = RequestsNotFromCache
              /\ RequestsWrittenToCache' = RequestsWrittenToCache
      ]_vars

\* a request was answered from a log that holds two records for it with
\* different responses, after another request of the same download went live
C7_Witness ==
    /\ pc = "download"
    /\ dl.trace # <<>>
    /\ Last(dl.trace).src = "cache"
    /\ \E i, j \in Matches(Last(dl.trace).req) :
          i < j /\ MapGet(pageIDToEntries, currPageID)[i].Response
                     # MapGet(pageIDToEntries, currPageID)[j].Response
    /\ RequestsFromCache > 0

(***************************************************************************)
(* C8.  A failing flush.                                                   *)
(***************************************************************************)
ErrorEvents(evs) == {i \in 1..Len(evs) : evs[i].type = "Error"}

\* C8: when the write of the page's file fails in the flush at the end of
\* DownloadPage, no file of the page is left, RequestsWrittenToCache does not
\* grow, the write error reaches the caller or the observer, and the page and
\* error of the page download are returned as they are.
C8_FlushFailureSurfaced ==
    [][ (IsReturn /\ dl'.flushErr # "") =>
          /\ disk'[dl.nid] = NoFile
          /\ RequestsWrittenToCache' = RequestsWrittenToCache
          /\ ret'.err = dl.err
          /\ (dl.err = "") = (ret'.page # NoPage)
          /\ \/ ErrorEvents(events') # ErrorEvents(events)
             \/ ret'.err = dl'.flushErr
      ]_vars


(***************************************************************************)
(* C2.  Offline replay of a crawl.                                         *)
(***************************************************************************)
\* the previous instance was given an empty directory and made one call, a
\* crawl that returned its pages; the current instance has no live transport,
\* and its first call is the same crawl
Replay ==
    /\ offline
    /\ ~NoReadCache
    /\ prevCrawl.done
    /\ prevCrawl.err = ""
    /\ prevCrawl.first
    /\ prevCrawl.emptyDir
    /\ crawl.first
    /\ crawl.active \/ crawl.done
    /\ crawl.start = prevCrawl.start
    /\ crawl.cb = prevCrawl.cb

\* the replay makes no live call and, unless its callback fails, returns the
\* pages of the first crawl
ReplayFromCache ==
    /\ liveCalls = 0
    /\ RequestsNotFromCache = 0
    /\ (crawl.done /\ ~crawl.cbFailed) =>
          /\ crawl.err = ""
          /\ crawl.pages = prevCrawl.pages

ChildrenOf(S) ==
    UNION {{ToNoDashID(c) : c \in Range(subPages[nid])} : nid \in S \cap NoDashIDs}

RECURSIVE Closure(_)
Closure(S) == IF ChildrenOf(S) \subseteq S THEN S ELSE Closure(S \cup ChildrenOf(S))

Reachable(start) == Closure({ToNoDashID(start)})

\* DownloadPage is called at most once per identity, only for identities
\* reachable from the start page, and for each of them when the crawl returns
\* its pages, with an empty queue
CrawlVisitsOnce ==
    /\ \A i, j \in 1..Len(crawl.calls) :
          i # j => ToNoDashID(crawl.calls[i]) # ToNoDashID(crawl.calls[j])
    /\ \A i \in 1..Len(crawl.calls) :
          ToNoDashID(crawl.calls[i]) \in Reachable(crawl.start)
    /\ (crawl.done /\ crawl.err = "") =>
          /\ {ToNoDashID(c) : c \in Range(crawl.calls)} = Reachable(crawl.start)
          /\ crawl.toVisit = <<>>
          /\ Range(crawl.pages) = Reachable(crawl.start)
          /\ Len(crawl.pages) = Len(crawl.calls)

\* C3: on every page graph, cyclic ones and ones that list children in dashed
\* or no-dash form included, the crawl calls DownloadPage exactly once for each
\* identity reachable from the start page, and it terminates, with an empty
\* queue when no download and no callback failed.
C3_CrawlVisitsOnceAndTerminates ==
    /\ []CrawlVisitsOnce
    /\ crawl.active ~> crawl.done

\* a crawl over the cyclic graph a1 <-> b1, children listed in both forms, has
\* returned both pages
C3_Witness ==
    /\ crawl.done
    /\ crawl.err = ""
    /\ subPages["a1"] = <<"a-1", "b1", "b-1">>
    /\ subPages["b1"] = <<"a-1", "b1", "b-1">>
    /\ crawl.pages = <<"a1", "b1">>
    /\ Len(crawl.calls) = 2

(***************************************************************************)
(* C4.  The abort of a crawl.                                              *)
(***************************************************************************)
\* the records of the exchanges that went live
RECURSIVE LiveRecords(_)
LiveRecords(trace) ==
    IF trace = <<>> THEN <<>>
    ELSE IF Head(trace).src = "live"
    THEN <<RequestCacheEntry("POST", Head(trace).req.URL, Head(trace).req.Body,
                             Head(trace).resp)>> \o LiveRecords(Tail(trace))
    ELSE LiveRecords(Tail(trace))

\* the files the crawl flushed are on disk as they were written
FlushedFilesOnDisk(frame, d) ==
    \A nid \in DOMAIN frame.files : d[nid] = frame.files[nid]

\* the crawl returns an error and no pages, without another DownloadPage call
AbortsNow ==
    /\ crawl'.done
    /\ crawl'.err # ""
    /\ ret'.op = "DownloadPagesRecursively"
    /\ ret'.err = crawl'.err
    /\ ret'.pages = <<>>
    /\ crawl'.calls = crawl.calls
    /\ crawl'.toVisit = crawl.toVisit
    /\ dl' = dl
    /\ disk' = disk
    /\ FlushedFilesOnDisk(crawl', disk')

\* C4: when DownloadPage or the callback fails for a page, the crawl returns
\* an error and no pages, calls DownloadPage for no identity left in the
\* queue, the page in flight at a callback failure has been flushed, and the
\* files flushed for the earlier pages are still on disk.
C4_CrawlAbort ==
    [][ /\ (pc = "crawlAfter" /\ ret.err # "") => AbortsNow /\ crawl'.err = ret.err
        /\ (pc = "crawlAfter" /\ crawl'.cbFailed) =>
              /\ AbortsNow
              /\ ~dl.active
              /\ dl.nid = crawl.pageID
              /\ currPageID = NoID
              /\ dl.flushed = LiveRecords(dl.trace)
              /\ (dl.flushed # <<>> /\ dl.flushErr = "") =>
                     disk[dl.nid] = <<serializeAll(dl.flushed)>>
        /\ (crawl.done /\ crawl'.done) => crawl'.calls = crawl.calls
        /\ (crawl.active /\ crawl'.active) => FlushedFilesOnDisk(crawl', disk')
      ]_vars

\* the callback failed for the second page: both files are on disk, and an
\* identity is left in the queue
C4_Witness ==
    /\ crawl.done
    /\ crawl.cbFailed
    /\ ret.pages = <<>>
    /\ DOMAIN crawl.files = {"a1", "b1"}
    /\ disk["a1"] # NoFile
    /\ disk["b1"] # NoFile
    /\ crawl.toVisit # <<>>


(***************************************************************************)
(* C6.  The freshness policy.                                              *)
(***************************************************************************)
\* the step is a call of op on the idle client, up to its return or its panic
IsVersionCall(op) ==
    /\ pc = "idle"
    /\ pc' \in {"idle", "panicked"}
    /\ ops' = ops + 1
    /\ ret'.op = op

\* the version recorded in the cached records of the page
CachedVersion(nid) == MapGet(pageIDToEntries, nid)[1].Response.ver

\* canReturnCachedPage asks the oracle about the page p and gets its block
AsksOracleAbout ==
    /\ IsVersionCall("canReturnCachedPage")
    /\ ret'.page # NoPage
    /\ RedownloadNewerVersions
    /\ queries' # queries
    /\ Aligned(<<ret'.page.ID>>, lastResp')

\* C6: with RedownloadNewerVersions on, a cached page of version V is accepted
\* when the oracle reports V and rejected when it reports V+1, and then the
\* DownloadPage of the page answers its requests live, not from the cached
\* records.
C6_FreshnessPolicy ==
    [][ /\ (AsksOracleAbout
              /\ ret'.page.Version = serverVer[ToNoDashID(ret'.page.ID)]) =>
                 (pc' = "idle" /\ ret'.ok)
        /\ (AsksOracleAbout
              /\ ret'.page.Version + 1 = serverVer[ToNoDashID(ret'.page.ID)]) =>
                 (pc' = "idle" /\ ~ret'.ok)
        /\ (/\ pc = "download"
            /\ dl'.n = dl.n + 1
            /\ RedownloadNewerVersions
            /\ dl.nid \in DOMAIN pageIDToEntries
            /\ CachedVersion(dl.nid) + 1 = serverVer[dl.nid]) =>
                 Last(dl'.trace).src # "cache"
      ]_vars

(***************************************************************************)
(* C9.  The version mapping and the sort of the ids.                       *)
(***************************************************************************)
\* C9: when updateVersionsForPages is given distinct identities in any order
\* and the oracle answers position by position for the ids as queried, it
\* returns with IdToPageLatestVersion mapping the no-dash form of every
\* identity to the version the oracle holds for it.
C9_VersionMappingSurvivesSorting ==
    [][ (/\ IsVersionCall("updateVersionsForPages")
         /\ ret'.pages # <<>>
         /\ Aligned(SortStrings(ret'.pages), lastResp')) =>
            /\ pc' = "idle"
            /\ ret'.err = ""
            /\ IdToPageLatestVersion' # <<>>
            /\ \A i \in 1..Len(ret'.pages) :
                  LET nid == ToNoDashID(ret'.pages[i])
                  IN  /\ nid \in DOMAIN IdToPageLatestVersion'[1]
                      /\ IdToPageLatestVersion'[1][nid] = serverVer[nid]
      ]_vars

(***************************************************************************)
(* C10.  An oracle answer that does not match the query.                   *)
(***************************************************************************)
\* the answer lacks a result, or holds at some position the block of another
\* identity
Mismatch(ids, resp) ==
    /\ ~resp.err
    /\ \/ Len(resp.results) # Len(ids)
       \/ \E i \in 1..Len(ids) :
             /\ ~resp.results[i].nil
             /\ ToNoDashID(resp.results[i].ID) # ToNoDashID(ids[i])

\* C10: getVersionsForPages returns an error, the program goes on and
\* IdToPageLatestVersion is unchanged, whenever the oracle's answer lacks a
\* result for an id or holds at some position the block of another identity.
C10_OracleMismatchIsError ==
    [][ (/\ IsVersionCall("getVersionsForPages")
         /\ Mismatch(ret'.pages, lastResp')) =>
            /\ pc' = "idle"
            /\ ret'.err = "error"
            /\ ret'.versions = <<>>
            /\ IdToPageLatestVersion' = IdToPageLatestVersion
      ]_vars


(***************************************************************************)
(* C11.  The version of a page the oracle has no block for.                *)
(***************************************************************************)
\* the version IdToPageLatestVersion holds for the page, -1 when it holds none
KnownVersion(map, nid) ==
    IF map # <<>> /\ nid \in DOMAIN map[1] THEN map[1][nid] ELSE -1

\* C11: getVersionsForPages reports version 0 at the position of every id the
\* oracle's answer has no block for, and when IdToPageLatestVersion holds 0 for
\* an identity, canReturnCachedPage returns true for every cached page of that
\* identity of version 1 or more.
C11_SentinelVersion ==
    [][ /\ (IsVersionCall("getVersionsForPages") /\ ret'.err = "") =>
              /\ Len(ret'.versions) = Len(ret'.pages)
              /\ \A i \in 1..Len(ret'.pages) :
                    lastResp'.results[i].nil => ret'.versions[i] = 0
        /\ (/\ IsVersionCall("canReturnCachedPage")
            /\ RedownloadNewerVersions
            /\ ret'.page # NoPage
            /\ ret'.page.Version >= 1
            /\ KnownVersion(IdToPageLatestVersion', ToNoDashID(ret'.page.ID)) = 0) =>
               (pc' = "idle" /\ ret'.ok)
      ]_vars

\* canReturnCachedPage asked the oracle about a page, got no block for it, and
\* has accepted the cached page of version 1
C11_Witness ==
    /\ ret.op = "canReturnCachedPage"
    /\ ret.ok
    /\ RedownloadNewerVersions
    /\ ret.page.Version = 1
    /\ queries # <<>>
    /\ ~lastResp.err
    /\ lastResp.results[1].nil
    /\ KnownVersion(IdToPageLatestVersion, ToNoDashID(ret.page.ID)) = 0


(***************************************************************************)
(* C12.  Serialization round trip.                                         *)
(***************************************************************************)
\* the result of the round trip has the length and the order of the list
\* given, with the same method, url and body at every position
RoundTripKeepsRequests ==
    /\ ret.err = ""
    /\ Len(pageIDToEntries[currPageID]) = Len(currPageRequests)
    /\ \A i \in 1..Len(currPageRequests) :
          /\ pageIDToEntries[currPageID][i].Method = currPageRequests[i].Method
          /\ pageIDToEntries[currPageID][i].URL = currPageRequests[i].URL
          /\ pageIDToEntries[currPageID][i].Body = currPageRequests[i].Body

\* C12 as stated: serializing every record of a list, concatenating and
\* deserializing gives back the list: same length, same order, same method,
\* url, body and response bytes, whatever the bodies and the responses hold.
C12_RoundTripExact ==
    pc = "deserialized" =>
        /\ RoundTripKeepsRequests
        /\ \A i \in 1..Len(currPageRequests) :
              pageIDToEntries[currPageID][i].Response = currPageRequests[i].Response

\* C12 as amended: the same for method, url and body; the response that comes
\* back is PrettyPrintJS of the response given, the same bytes when that is
\* not compact JSON.
C12_RoundTripPrettyPrinted ==
    pc = "deserialized" =>
        /\ RoundTripKeepsRequests
        /\ \A i \in 1..Len(currPageRequests) :
              /\ pageIDToEntries[currPageID][i].Response =
                    PrettyPrintJS(currPageRequests[i].Response)
              /\ currPageRequests[i].Response.fmt # "compact" =>
                    pageIDToEntries[currPageID][i].Response =
                        currPageRequests[i].Response

\* a list of MaxReqs records went through the round trip: a two-line body and
\* a compact JSON response among them
C12_Witness ==
    /\ pc = "deserialized"
    /\ Len(currPageRequests) = MaxReqs
    /\ Len(pageIDToEntries[currPageID]) = MaxReqs
    /\ \E i \in 1..MaxReqs : currPageRequests[i].Body = "l1\nl2"
    /\ \E i \in 1..MaxReqs :
          /\ currPageRequests[i].Response.fmt = "compact"
          /\ pageIDToEntries[currPageID][i].Response.fmt = "pretty"


(***************************************************************************)
(* C13.  The load and the entries it cannot use.                           *)
(***************************************************************************)
\* the entry is a regular file whose records all have the cache's type and
\* the four fields
WellFormed(f) ==
    /\ disk[f] # NoFile
    /\ disk[f][1] # Directory
    /\ ~deserializeCacheEntry(disk[f][1]).err

\* NewCachingClient has returned
Loaded == pc = "new" \/ (pc = "none" /\ ret.op = "NewCachingClient")

\* C13: when the directory can be created and read, the load does not fail:
\* it leaves out every entry that is no regular file, has a name that is no
\* identity or has malformed contents, and indexes every well-formed file
\* under its no-dash identity.
C13_LoadToleratesMalformed ==
    Loaded =>
        /\ ret.err = ""
        /\ \A nid \in NoDashIDs :
              IF \E f \in FileStems : ToNoDashID(f) = nid /\ WellFormed(f)
              THEN /\ nid \in DOMAIN pageIDToEntries
                   /\ \E f \in FileStems :
                         /\ ToNoDashID(f) = nid
                         /\ WellFormed(f)
                         /\ pageIDToEntries[nid] = deserializeCacheEntry(disk[f][1]).res
              ELSE nid \notin DOMAIN pageIDToEntries


(***************************************************************************)
(* C14.  Records appended during a download.                               *)
(***************************************************************************)
\* the pending list holds a record for the request
PendingHolds(req) ==
    \E i \in 1..Len(currPageRequests) :
        /\ currPageRequests[i].Method = "POST"
        /\ currPageRequests[i].URL = req.URL
        /\ currPageRequests[i].Body = req.Body

\* C14: a request is answered from the cache only with a record of the index,
\* never with a record appended during the same download: a request the index
\* has no record for goes live even when the pending list holds its record,
\* and its exchange is appended to the pending list.
C14_DeferredVisibility ==
    [][ IsIntercept =>
          LET req == pageReqs(dl.nid)[dl.n + 1]
              x == Last(dl'.trace)
              log == MapGet(pageIDToEntries, currPageID)
          IN  /\ x.src = "cache" =>
                    /\ Matches(req) # {}
                    /\ x.resp = log[Min(Matches(req))].Response
              /\ (Matches(req) = {} /\ PendingHolds(req)) =>
                    /\ liveCalls' = liveCalls + 1
                    /\ x.src # "cache"
                    /\ x.src = "live" =>
                          currPageRequests' =
                              Append(currPageRequests,
                                     RequestCacheEntry("POST", req.URL, req.Body, x.resp))
      ]_vars

\* a download has issued the same request twice, the index held no record of
\* the page, both went live and both exchanges are pending
C14_Witness ==
    /\ pc = "download"
    /\ MapGet(pageIDToEntries, currPageID) = <<>>
    /\ ~NoReadCache
    /\ Len(dl.trace) = 2
    /\ dl.trace[1].req = dl.trace[2].req
    /\ dl.trace[1].src = "live"
    /\ dl.trace[2].src = "live"
    /\ Len(currPageRequests) = 2
    /\ liveCalls = 2


(***************************************************************************)
(* C15.  What IdToPageLatestVersion holds stays.                           *)
(***************************************************************************)
\* the identities IdToPageLatestVersion has an entry for
KnownIDs(map) == IF map = <<>> THEN {} ELSE DOMAIN map[1]

\* a step of the client in use, not the construction of another one
SameClient == pc \notin {"none", "new"} /\ pc' \notin {"none", "new"}

\* C15: no DownloadPage, canReturnCachedPage, updateVersionsForPages or
\* checkVersionsOfCachedPages call removes an entry of IdToPageLatestVersion,
\* and canReturnCachedPage does not ask the oracle about an identity that has
\* an entry.
C15_KnowledgeNeverInvalidated ==
    [][ /\ SameClient => KnownIDs(IdToPageLatestVersion) \subseteq
                            KnownIDs(IdToPageLatestVersion')
        /\ (/\ IsVersionCall("canReturnCachedPage")
            /\ ret'.page # NoPage
            /\ ToNoDashID(ret'.page.ID) \in KnownIDs(IdToPageLatestVersion)) =>
               /\ queries' = queries
               /\ IdToPageLatestVersion' = IdToPageLatestVersion
      ]_vars

\* updateVersionsForPages has stored the versions of both pages, and a later
\* canReturnCachedPage for one of them has answered without a query
C15_Witness ==
    /\ ret.op = "canReturnCachedPage"
    /\ ret.page # NoPage
    /\ RedownloadNewerVersions
    /\ KnownIDs(IdToPageLatestVersion) = {"a1", "b1"}
    /\ Len(queries) = 1
    /\ Len(queries[1]) = 2


(***************************************************************************)
(* C16.  The batch version check.                                          *)
(***************************************************************************)
\* the batch query: the identities of the index, sorted and dashed
BatchQuery == normalizeIDS(SortStrings(GetPageIDs))

\* C16: with RedownloadNewerVersions on, the download of a cached page has the
\* batch check done by the time it returns; the first batch check asks the
\* oracle once about every identity of the index and records a version for
\* each; once it has succeeded, and when RedownloadNewerVersions is off, the
\* check asks nothing.
C16_OneTimeBatchCheck ==
    [][ /\ (/\ IsReturn
            /\ RedownloadNewerVersions
            /\ dl.nid \in DOMAIN pageIDToEntries) =>
               /\ didCheckVersionsOfCachedPages'
               /\ DOMAIN pageIDToEntries \subseteq KnownIDs(IdToPageLatestVersion')
        /\ (/\ IsVersionCall("checkVersionsOfCachedPages")
            /\ RedownloadNewerVersions
            /\ ~didCheckVersionsOfCachedPages
            /\ pageIDToEntries # EmptyMap
            /\ Aligned(SortStrings(GetPageIDs), lastResp')) =>
               /\ pc' = "idle"
               /\ queries' = Append(queries, BatchQuery)
               /\ DOMAIN pageIDToEntries \subseteq KnownIDs(IdToPageLatestVersion')
               /\ didCheckVersionsOfCachedPages'
        /\ (/\ IsVersionCall("checkVersionsOfCachedPages")
            /\ (~RedownloadNewerVersions \/ didCheckVersionsOfCachedPages)) =>
               /\ queries' = queries
               /\ UNCHANGED verVars
      ]_vars


(***************************************************************************)
(* C17.  What a page's file answers, from download to download.            *)
(***************************************************************************)
\* the page's file holds a record that answers the request
FileAnswers(d, nid, req) ==
    /\ d[nid] # NoFile
    /\ \E i \in 1..Len(deserializeCacheEntry(d[nid][1]).res) :
          LET rr == deserializeCacheEntry(d[nid][1]).res[i]
          IN  rr.Method = "POST" /\ rr.URL = req.URL /\ rr.Body = req.Body

\* C17: a request that the page's file answers before a DownloadPage of the
\* page is answered by the file after it, when the flush of that download
\* succeeds.
C17_CacheCompletenessMonotone ==
    [][ (IsReturn /\ dl'.flushErr = "") =>
          \A req \in Requests :
              FileAnswers(disk, dl.nid, req) => FileAnswers(disk', dl.nid, req)
      ]_vars


(***************************************************************************)
(* C18.  A download that was answered from the cache.                      *)
(***************************************************************************)
\* C18: a DownloadPage that ends with an empty pending list, every request
\* having been served from the cache or none having been answered live,
\* changes no cache file, creates none and leaves RequestsWrittenToCache as it
\* was.
C18_FullyCachedWritesNothing ==
    [][ (IsReturn /\ currPageRequests = <<>>) =>
          /\ disk' = disk
          /\ RequestsWrittenToCache' = RequestsWrittenToCache
          /\ dl'.flushErr = ""
      ]_vars

\* a download has returned its page with every request served from the cache,
\* and the page's file is the one the earlier download wrote
C18_Witness ==
    /\ pc = "idle"
    /\ ret.op = "DownloadPage"
    /\ ret.err = ""
    /\ Len(dl.trace) = Len(pageReqs(dl.nid))
    /\ AllSrc(dl.trace, "cache")
    /\ dl.flushed = <<>>
    /\ RequestsWrittenToCache = 0
    /\ disk[dl.nid] # NoFile
    /\ Len(disk[dl.nid][1]) = Len(pageReqs(dl.nid))


(***************************************************************************)
(* C19.  The counters.                                                     *)
(***************************************************************************)
\* C19: RequestsWrittenToCache never exceeds RequestsNotFromCache; the
\* counters are zero on a new client; RequestsFromCache + RequestsNotFromCache
\* grows by one with every intercepted request that returns without error,
\* RequestsWrittenToCache grows with every flush that succeeds by the number
\* of records flushed, and nothing else changes a counter.
C19_CounterInvariant ==
    /\ [](RequestsWrittenToCache <= RequestsNotFromCache)
    /\ [][ /\ pc' = "new" =>
                 /\ RequestsFromCache' = 0
                 /\ RequestsNotFromCache' = 0
                 /\ RequestsWrittenToCache' = 0
           /\ IsIntercept =>
                 /\ RequestsFromCache' + RequestsNotFromCache' =
                       RequestsFromCache + RequestsNotFromCache
                         + (IF Last(dl'.trace).src = "error" THEN 0 ELSE 1)
                 /\ RequestsWrittenToCache' = RequestsWrittenToCache
           /\ IsReturn =>
                 /\ RequestsWrittenToCache' =
                       RequestsWrittenToCache
                         + (IF dl'.flushErr = "" THEN Len(currPageRequests) ELSE 0)
                 /\ RequestsFromCache' = RequestsFromCache
                 /\ RequestsNotFromCache' = RequestsNotFromCache
           /\ (SameClient /\ ~IsIntercept /\ ~IsReturn) => UNCHANGED counterVars
         ]_vars

\* a crawl of two pages is over: the flush of one page failed, the flush of
\* the other wrote its records
C19_Witness ==
    /\ crawl.done
    /\ Len(crawl.calls) = 2
    /\ crawl.flushFailed
    /\ RequestsWrittenToCache = MaxReqs
    /\ RequestsNotFromCache = 2 * MaxReqs


(***************************************************************************)
(* C20.  The index after the load.                                         *)
(***************************************************************************)
\* C20: no step of a DownloadPage, of its flush or of a crawl changes
\* pageIDToEntries, and every request of a page that the index does not hold
\* goes to the live transport, whether or not the page's file exists.
C20_IndexFixedAfterLoad ==
    [][ /\ SameClient => pageIDToEntries' = pageIDToEntries
        /\ (IsIntercept /\ dl.nid \notin DOMAIN pageIDToEntries) =>
              /\ liveCalls' = liveCalls + 1
              /\ Last(dl'.trace).src # "cache"
              /\ RequestsFromCache' = RequestsFromCache
      ]_vars

\* the client was loaded from an empty directory and has written the page's
\* file in its first crawl; in its second crawl every request of the page has
\* gone live again
C20_Witness ==
    /\ pc = "download"
    /\ run = 1
    /\ ops = 2
    /\ ~crawl.first
    /\ pageIDToEntries = EmptyMap
    /\ disk[dl.nid] # NoFile
    /\ Len(dl.trace) = Len(pageReqs(dl.nid))
    /\ AllSrc(dl.trace, "live")
    /\ RequestsFromCache = 0

====
